---- MODULE Spec2Model ----
(***************************************************************************)
(* Scribe-AI: the pagination engine paginateText of src/utils/textUtils.ts *)
(* (the later, table-aware definition, lines 131-324) as a state machine.  *)
(*                                                                         *)
(* A string is a sequence of one-character strings; "\n" is the newline.   *)
(* Heights and widths are IEEE 754 doubles, as in the program: fontSize is *)
(* an integer, lineHeight is given in tenths (16 is the double 1.6).       *)
(***************************************************************************)
EXTENDS Integers, Sequences, FiniteSets, TLC

VARIABLES
    text,               \* paginateText's argument text
    fontSize,           \* its argument fontSize, in pixels
    lineHeight,         \* its argument lineHeight, in tenths (16 is 1.6)
    pc,                 \* position in paginateText
    pxPerLine,          \* its local pxPerLine, a double
    charsPerLine,       \* its local charsPerLine, an integer or Infinity
    rawLines,           \* text.split('\n')
    i,                  \* segmentation index (1-based)
    blocks,             \* the blocks found so far
    b,                  \* index of the block being placed (1-based)
    r,                  \* row index inside a table being split (1-based)
    visualLines,        \* wrapText's result for the text block being placed
    k,                  \* index of the visual line being placed (1-based)
    pages,              \* the pages pushed so far, each a string
    currentPageLines,   \* lines of the page being filled
    currentHeightUsed,  \* its accumulated height
    currentPageTags,    \* history: where each line of the current page came from
    pageTags,           \* history: the tags of each pushed page
    pageHeights,        \* history: currentHeightUsed when each page was pushed
    tableEntry,         \* history: the page as it was when the last table was reached
    prev,               \* history: the call before this one, if the caller re-ran
    isGenerating,       \* App state: a text generation is running
    isProcessing,       \* App state: an export is running
    error,              \* App state: the error message shown, or Null
    generateCall,       \* handleGenerate's position: "idle" or "calling"
    downloadJob,        \* the export handler that is running, or "idle"
    event               \* history: what the last handler step did

vars == <<text, fontSize, lineHeight, pc, pxPerLine, charsPerLine, rawLines, i,
          blocks, b, r, visualLines, k, pages, currentPageLines, currentHeightUsed, currentPageTags,
          pageTags, pageHeights, tableEntry, prev, isGenerating, isProcessing,
          error, generateCall, downloadJob, event>>

(***************************************************************************)
(* Program constants                                                       *)
(***************************************************************************)
PAGE_HEIGHT == 1123
VERTICAL_PADDING == 96
PAGE_WIDTH == 794
HORIZONTAL_PADDING_PX == 92
\* avgCharWidth = fontSize * 0.45: the factor, in hundredths
AvgCharWidthPct == 45

NL == "\n"
SP == " "

(***************************************************************************)
(* String primitives                                                       *)
(***************************************************************************)
\* String.prototype.split(sep) for a one-character separator: the pieces
\* between consecutive cuts, a cut being a position that holds sep, the
\* position before the string or the position after it
Split(s, sep) ==
    LET cuts == {0} \cup {n \in 1..Len(s) : s[n] = sep} \cup {Len(s) + 1}
        Cut(m) == CHOOSE c \in cuts : Cardinality({d \in cuts : d < c}) = m
    IN  [m \in 1..(Cardinality(cuts) - 1) |->
            SubSeq(s, Cut(m - 1) + 1, Cut(m) - 1)]

\* Array.prototype.join(sep)
RECURSIVE Join(_, _)
Join(ls, sep) ==
    IF ls = <<>> THEN <<>>
    ELSE IF Len(ls) = 1 THEN ls[1]
    ELSE ls[1] \o <<sep>> \o Join(Tail(ls), sep)

\* the characters trim() removes and \s matches: the WhiteSpace and
\* LineTerminator code points of ECMAScript.  Those a string of this language
\* cannot hold are written as their code point.
WhiteSpace ==
    { " ", "\t", "\n", "\r", "\f", "", " ", " ", "﻿",
      "U+2000", "U+2001", "U+2002", "U+2003", "U+2004", "U+2005", "U+2006",
      "U+2007", "U+2008", "U+2009", "U+200A", "U+2028", "U+2029", "U+202F",
      "U+205F", "U+3000" }

IsSpace(c) == c \in WhiteSpace

\* String.prototype.trim()
RECURSIVE Trim(_)
Trim(s) ==
    IF s = <<>> THEN s
    ELSE IF IsSpace(s[1]) THEN Trim(Tail(s))
    ELSE IF IsSpace(s[Len(s)]) THEN Trim(SubSeq(s, 1, Len(s) - 1))
    ELSE s

\* trimmed.startsWith('|')
IsTableRow(line) == LET t == Trim(line) IN Len(t) > 0 /\ t[1] = "|"

\* /^---$/.test(trimmed) || /^___$/.test(trimmed) || /^\*\*\*$/.test(trimmed)
IsHr(line) ==
    Trim(line) \in {<<"-", "-", "-">>, <<"_", "_", "_">>, <<"*", "*", "*">>}

\* /^#{1,6}\s/.test(line)
IsHeader(line) ==
    \E n \in 1..6 :
        /\ Len(line) > n
        /\ \A m \in 1..n : line[m] = "#"
        /\ IsSpace(line[n + 1])

(***************************************************************************)
(* IEEE 754 double arithmetic                                              *)
(*                                                                         *)
(* The numbers of paginateText are JavaScript numbers.  A finite double is *)
(* kept as a sign and a magnitude, the magnitude as an integer count of    *)
(* 2^-60 written in five limbs of 20 bits, least significant first.  Every *)
(* double computed from an integer fontSize and a lineHeight given in      *)
(* tenths is a multiple of 2^-60, so sums and products are formed exactly  *)
(* and then rounded to 53 significant bits, ties to even, as the hardware  *)
(* does.  Overflow to Infinity and subnormal results are out of reach of   *)
(* these magnitudes.                                                       *)
(***************************************************************************)
Limb == 2^20

\* F at the value of x, and at the values of x and y: an operand that is
\* itself a computation is carried out once, as an assignment to a local does
Once(F(_), x) == CHOOSE value \in {F(a) : a \in {x}} : TRUE

Both(F(_, _), x, y) == CHOOSE value \in {F(a, c) : a \in {x}, c \in {y}} : TRUE

MagZero == <<0, 0, 0, 0, 0>>

\* the magnitude of the natural number n
MagOfNat(n) == <<0, 0, 0, n % Limb, n \div Limb>>

MagAdd(x, y) ==
    LET s1 == x[1] + y[1]
        s2 == x[2] + y[2] + (s1 \div Limb)
        s3 == x[3] + y[3] + (s2 \div Limb)
        s4 == x[4] + y[4] + (s3 \div Limb)
        s5 == x[5] + y[5] + (s4 \div Limb)
    IN  <<s1 % Limb, s2 % Limb, s3 % Limb, s4 % Limb, s5>>

\* x - y for x >= y
MagSub(x, y) ==
    LET d1 == x[1] - y[1]
        d2 == x[2] - y[2] - (IF d1 < 0 THEN 1 ELSE 0)
        d3 == x[3] - y[3] - (IF d2 < 0 THEN 1 ELSE 0)
        d4 == x[4] - y[4] - (IF d3 < 0 THEN 1 ELSE 0)
        d5 == x[5] - y[5] - (IF d4 < 0 THEN 1 ELSE 0)
    IN  <<d1 % Limb, d2 % Limb, d3 % Limb, d4 % Limb, d5>>

MagLess(x, y) ==
    \E n \in 1..5 : x[n] < y[n] /\ \A m \in (n + 1)..5 : x[m] = y[m]

\* floor(x / 2)
MagHalf(x) ==
    <<(x[1] \div 2) + (x[2] % 2) * (Limb \div 2),
      (x[2] \div 2) + (x[3] % 2) * (Limb \div 2),
      (x[3] \div 2) + (x[4] % 2) * (Limb \div 2),
      (x[4] \div 2) + (x[5] % 2) * (Limb \div 2),
      x[5] \div 2>>

\* limb m of x, limbs beyond the fifth being zero
MagLimb(x, m) == IF m <= 5 THEN x[m] ELSE 0

\* floor(x / 2^n): whole limbs first, then the remaining bits
MagShift(x, n) ==
    LET c == n \div 20
        low == 2^(n % 20)
        high == Limb \div low
    IN  <<(MagLimb(x, c + 1) \div low) + (MagLimb(x, c + 2) % low) * high,
          (MagLimb(x, c + 2) \div low) + (MagLimb(x, c + 3) % low) * high,
          (MagLimb(x, c + 3) \div low) + (MagLimb(x, c + 4) % low) * high,
          (MagLimb(x, c + 4) \div low) + (MagLimb(x, c + 5) % low) * high,
          MagLimb(x, c + 5) \div low>>

\* n * x for a natural number n < 2^11, limb by limb
MagTimesShort(n, x) ==
    LET p1 == n * x[1]
        p2 == n * x[2] + (p1 \div Limb)
        p3 == n * x[3] + (p2 \div Limb)
        p4 == n * x[4] + (p3 \div Limb)
        p5 == n * x[5] + (p4 \div Limb)
    IN  <<p1 % Limb, p2 % Limb, p3 % Limb, p4 % Limb, p5>>

\* n * x for a natural number n < 2^21
MagTimes(n, x) ==
    IF n < 2^11 THEN MagTimesShort(n, x)
    ELSE LET Raised(high) == MagTimesShort(2^10, high)
         IN  Both(MagAdd, Once(Raised, MagTimesShort(n \div 2^10, x)),
                  MagTimesShort(n % 2^10, x))

\* floor(x / d) for 0 < d < 2^11, and the remainder the division left
MagDiv(x, d) ==
    LET t5 == x[5]
        t4 == (t5 % d) * Limb + x[4]
        t3 == (t4 % d) * Limb + x[3]
        t2 == (t3 % d) * Limb + x[2]
        t1 == (t2 % d) * Limb + x[1]
    IN  [quotient |-> <<t1 \div d, t2 \div d, t3 \div d, t4 \div d, t5 \div d>>,
         remainder |-> t1 % d]

\* the number of bits of a natural number below 2^5, 2^10, 2^20, 2^31
BitLength5(n) ==
    IF n >= 16 THEN 5 ELSE IF n >= 8 THEN 4 ELSE IF n >= 4 THEN 3
    ELSE IF n >= 2 THEN 2 ELSE n

BitLength10(n) ==
    IF n >= 32 THEN 5 + BitLength5(n \div 32) ELSE BitLength5(n)

BitLength20(n) ==
    IF n >= 1024 THEN 10 + BitLength10(n \div 1024) ELSE BitLength10(n)

BitLength(n) ==
    IF n >= Limb THEN 20 + BitLength20(n \div Limb) ELSE BitLength20(n)

\* the number of bits of a magnitude
MagBits(x) ==
    IF x[5] # 0 THEN 80 + BitLength(x[5])
    ELSE IF x[4] # 0 THEN 60 + BitLength(x[4])
    ELSE IF x[3] # 0 THEN 40 + BitLength(x[3])
    ELSE IF x[2] # 0 THEN 20 + BitLength(x[2])
    ELSE BitLength(x[1])

\* bit n of a magnitude, bit 0 being the lowest
MagBit(x, n) == (x[(n \div 20) + 1] \div 2^(n % 20)) % 2

\* the bits below bit n are all 0
MagLowZero(x, n) ==
    /\ \A m \in 1..(n \div 20) : x[m] = 0
    /\ x[(n \div 20) + 1] % 2^(n % 20) = 0

\* x with the bits below bit n cleared
MagClearLimb(x, n, m) ==
    IF m <= n \div 20 THEN 0
    ELSE IF m = (n \div 20) + 1 THEN x[m] - (x[m] % 2^(n % 20))
    ELSE x[m]

MagClear(x, n) ==
    <<MagClearLimb(x, n, 1), MagClearLimb(x, n, 2), MagClearLimb(x, n, 3),
      MagClearLimb(x, n, 4), MagClearLimb(x, n, 5)>>

\* 2^n
MagBitAtLimb(n, m) == IF m = (n \div 20) + 1 THEN 2^(n % 20) ELSE 0

MagBitAt(n) ==
    <<MagBitAtLimb(n, 1), MagBitAtLimb(n, 2), MagBitAtLimb(n, 3),
      MagBitAtLimb(n, 4), MagBitAtLimb(n, 5)>>

\* x rounded to a multiple of 2^n, a tie going to the even multiple; sticky
\* says that the exact value lies above x by less than one unit
MagRoundAt(x, n, sticky) ==
    LET up == /\ MagBit(x, n - 1) = 1
              /\ \/ sticky
                 \/ ~MagLowZero(x, n - 1)
                 \/ MagBit(x, n) = 1
    IN  IF up THEN Both(MagAdd, MagClear(x, n), MagBitAt(n))
        ELSE MagClear(x, n)

\* x rounded to 53 significant bits
MagRound(x, sticky) ==
    LET Rounded(v, bits) ==
            IF bits <= 53 THEN v ELSE MagRoundAt(v, bits - 53, sticky)
        Sized(v) == Both(Rounded, v, MagBits(v))
    IN  Once(Sized, x)

Double(neg, mag) == [neg |-> neg /\ mag # MagZero, mag |-> mag]

Zero == Double(FALSE, MagZero)

\* the double of the integer n
Number(n) == Double(n < 0, MagOfNat(IF n < 0 THEN 0 - n ELSE n))

\* the double nearest to the decimal n / d, for an integer n and 0 < d < 2^11
\* with n / d zero or of absolute value at least 2^-8.  A quotient of more
\* than 53 bits is rounded as a sum is; one of 53 bits is exact up to the
\* remainder, which takes it to the next double when it is more than half of
\* d, or half of d with the quotient odd.
Decimal(n, d) ==
    LET Nearest(q) ==
            LET up == \/ 2 * q.remainder > d
                      \/ 2 * q.remainder = d /\ q.quotient[1] % 2 = 1
            IN  IF MagBits(q.quotient) > 53
                THEN MagRound(q.quotient, q.remainder # 0)
                ELSE IF up THEN MagAdd(q.quotient, MagBitAt(0))
                ELSE q.quotient
    IN  Double(n < 0,
               Once(Nearest, MagDiv(MagOfNat(IF n < 0 THEN 0 - n ELSE n), d)))

\* x < y
Less(x, y) ==
    LET Below(a, c) ==
            IF a.neg # c.neg THEN a.neg
            ELSE IF a.neg THEN MagLess(c.mag, a.mag)
            ELSE MagLess(a.mag, c.mag)
    IN  Both(Below, x, y)

\* x <= y
AtMost(x, y) == ~Less(y, x)

\* x + y
Plus(x, y) ==
    LET Sum(a, c) ==
            IF a.neg = c.neg
            THEN Double(a.neg, MagRound(MagAdd(a.mag, c.mag), FALSE))
            ELSE IF MagLess(a.mag, c.mag)
                 THEN Double(c.neg, MagRound(MagSub(c.mag, a.mag), FALSE))
            ELSE Double(a.neg, MagRound(MagSub(a.mag, c.mag), FALSE))
    IN  Both(Sum, x, y)

\* n * x for an integer n
Times(n, x) ==
    LET Product(a) ==
            Double((n < 0) # a.neg,
                   MagRound(MagTimes(IF n < 0 THEN 0 - n ELSE n, a.mag), FALSE))
    IN  Once(Product, x)

\* x * 0.5
TimesHalf(x) == Double(x.neg, MagHalf(x.mag))

\* x * 1.5
TimesOneAndHalf(x) ==
    LET Product(a) ==
            Double(a.neg,
                   MagRound(Both(MagAdd, a.mag, MagHalf(a.mag)), FALSE))
    IN  Once(Product, x)

\* Infinity, and a finite integer, as values of one kind
Infinity == [finite |-> FALSE, n |-> 0]

Finite(n) == [finite |-> TRUE, n |-> n]

\* len <= max for an integer len and a max that may be Infinity
Within(len, max) == ~max.finite \/ len <= max.n

\* a divided by x > 0: the quotient, a natural number, and the remainder.
\* The quotient by 2 * x is found first; what it leaves holds x once or not
\* at all.
RECURSIVE MagDivide(_, _)
MagDivide(a, x) ==
    LET Halved(half) ==
            IF MagLess(half.remainder, x)
            THEN [quotient |-> 2 * half.quotient,
                  remainder |-> half.remainder]
            ELSE [quotient |-> 2 * half.quotient + 1,
                  remainder |-> MagSub(half.remainder, x)]
        Divided(twice) == Once(Halved, MagDivide(a, twice))
    IN  IF MagLess(a, x) THEN [quotient |-> 0, remainder |-> a]
        ELSE Once(Divided, MagAdd(x, x))

\* Math.floor(a / x) for a natural number a > 0 and a double x: the quotient
\* is rounded to the nearest double before the floor is taken, so a quotient
\* within half a unit in the last place of an integer becomes that integer;
\* a division by zero raises nothing and yields Infinity
FloorDiv(a, x) ==
    LET Floored(v, d) ==
            LET q == d.quotient
                Nearest(halfUlp, short) ==
                    LET exact == d.remainder = MagZero
                        down == q >= 1 /\ ~MagLess(halfUlp, d.remainder)
                        up == ~exact /\ ~MagLess(halfUlp, short)
                    IN  IF ~v.neg THEN Finite(IF up THEN q + 1 ELSE q)
                        ELSE Finite(IF exact \/ (down /\ ~up) THEN 0 - q
                                    ELSE 0 - (q + 1))
            IN  Both(Nearest, MagShift(v.mag, 54 - BitLength(q)),
                     MagSub(v.mag, d.remainder))
        Quotient(v) ==
            IF v.mag = MagZero THEN Infinity
            ELSE Both(Floored, v, MagDivide(MagOfNat(a), v.mag))
    IN  Once(Quotient, x)

(***************************************************************************)
(* Metrics                                                                 *)
(***************************************************************************)
AVAILABLE_HEIGHT == Number(PAGE_HEIGHT - VERTICAL_PADDING)
USABLE_WIDTH == PAGE_WIDTH - HORIZONTAL_PADDING_PX

\* fontSize * lineHeight, the value pxPerLine is given
LinePixels(size, tenths) == Times(size, Decimal(tenths, 10))

\* avgCharWidth = fontSize * 0.45
avgCharWidth(size) == Times(size, Decimal(AvgCharWidthPct, 100))

\* Math.floor(USABLE_WIDTH / avgCharWidth), the value charsPerLine is given
LineChars(size) == FloorDiv(USABLE_WIDTH, avgCharWidth(size))

\* getLineHeight with a rule that takes no height
getLineHeightRuleFree(isHeader, isTable, isHr) ==
    IF isTable THEN pxPerLine
    ELSE IF isHr THEN Zero
    ELSE IF isHeader THEN TimesOneAndHalf(pxPerLine)
    ELSE pxPerLine

\* getLineHeight without the heading factor
getLineHeightFlat(isHeader, isTable, isHr) ==
    IF isTable THEN pxPerLine
    ELSE IF isHr THEN TimesHalf(pxPerLine)
    ELSE pxPerLine

getLineHeight(isHeader, isTable, isHr) ==
    IF isTable THEN pxPerLine
    ELSE IF isHr THEN TimesHalf(pxPerLine)
    ELSE IF isHeader THEN TimesOneAndHalf(pxPerLine)
    ELSE pxPerLine

(***************************************************************************)
(* wrapText                                                                *)
(***************************************************************************)
RECURSIVE WrapLoop(_, _, _, _, _)
WrapLoop(words, n, current, wrapped, max) ==
    IF n > Len(words) THEN Append(wrapped, current)
    ELSE IF Within(Len(current) + 1 + Len(words[n]), max)
         THEN WrapLoop(words, n + 1, current \o <<SP>> \o words[n], wrapped, max)
         ELSE WrapLoop(words, n + 1, words[n], Append(wrapped, current), max)

\* the same loop with the final wrapped.push(current) left out
RECURSIVE WrapLoopDropLast(_, _, _, _, _)
WrapLoopDropLast(words, n, current, wrapped, max) ==
    IF n > Len(words) THEN wrapped
    ELSE IF Within(Len(current) + 1 + Len(words[n]), max)
         THEN WrapLoopDropLast(words, n + 1, current \o <<SP>> \o words[n], wrapped, max)
         ELSE WrapLoopDropLast(words, n + 1, words[n], Append(wrapped, current), max)

\* the same loop with the joining space left out of the length test
RECURSIVE WrapLoopNoSpace(_, _, _, _, _)
WrapLoopNoSpace(words, n, current, wrapped, max) ==
    IF n > Len(words) THEN Append(wrapped, current)
    ELSE IF Within(Len(current) + Len(words[n]), max)
         THEN WrapLoopNoSpace(words, n + 1, current \o <<SP>> \o words[n], wrapped, max)
         ELSE WrapLoopNoSpace(words, n + 1, words[n], Append(wrapped, current), max)

wrapTextNoSpace(str, max) ==
    IF Within(Len(str), max) THEN <<str>>
    ELSE LET words == Split(str, SP)
         IN  WrapLoopNoSpace(words, 2, words[1], <<>>, max)

\* wrapText over the non-empty words only
wrapTextSkipEmpty(str, max) ==
    IF Within(Len(str), max) THEN <<str>>
    ELSE LET words == SelectSeq(Split(str, SP), LAMBDA w : w # <<>>)
         IN  IF words = <<>> THEN << <<>> >>
             ELSE WrapLoop(words, 2, words[1], <<>>, max)

wrapTextDropLast(str, max) ==
    IF Within(Len(str), max) THEN <<str>>
    ELSE LET words == Split(str, SP)
         IN  WrapLoopDropLast(words, 2, words[1], <<>>, max)

wrapText(str, max) ==
    IF Within(Len(str), max) THEN <<str>>
    ELSE LET words == Split(str, SP)
         IN  WrapLoop(words, 2, words[1], <<>>, max)

(***************************************************************************)
(* Documents and parameters the model draws                                *)
(***************************************************************************)
MaxLines == 4
MaxRows == 4

L_empty == <<>>
L_text == <<"a", "b", " ", "c", "d">>
L_heading == <<"#", " ", "a">>
L_hr == <<"-", "-", "-">>
L_row == <<"|", "h", "|">>
L_rowIndented == <<" ", "|", "1">>
L_rowAfterCR == <<"\r", "|", "1">>
L_hrBeforeCR == <<"-", "-", "-", "\r">>
L_headingByCR == <<"#", "\r", "a">>
L_fifteen ==
    <<"a", "b", "c", "d", "e", "f", "g", " ",
      "h", "i", "j", "k", "l", "m", "n">>

\* lines any document position may hold
LinePool == {L_empty, L_text, L_heading, L_hr, L_row}

\* further lines, placed before or after a table
EdgePool ==
    { L_empty, L_text, L_heading, L_hr, L_rowIndented,
      <<"-", "-", "-", "-">>, <<"*", "*", "*">>, <<"_", "_", "_">>,
      <<" ", "-", "-", "-", " ">>, <<"*", "*", "*", "*", "*">>,
      <<"-", "*", "-">>, <<"-", "-">>,
      <<"a", "b", "c", "d", "e", "f", "g">>,
      <<"a", " ", " ", "b", "c", "d", "e", " ">>,
      <<" ", "a", " ", " ", "b", " ">>,
      <<"a", "b", " ", "#", " ", "c">>,
      <<"#", "#", "#", "#", "#", "#", "#", " ", "a">>,
      <<"#", "a">>, L_hrBeforeCR, L_headingByCR }

Digits == <<"1", "2", "3", "4", "5", "6", "7", "8", "9">>

\* the n-th row of the table the framed documents hold: label row, separator
\* row, then data rows
TableRow(n) ==
    IF n = 1 THEN <<"|", "A", "|">>
    ELSE IF n = 2 THEN <<"|", ":", "-", "|">>
    ELSE <<"|", Digits[n - 2], "|">>

TableRows(n) == [m \in 1..n |-> TableRow(m)]

PoolDocs == UNION {[1..n -> LinePool] : n \in 1..MaxLines}

OptEdge == {<<>>} \cup {<<l>> : l \in EdgePool}

FramedDocs ==
    {pre \o TableRows(n) \o post :
        pre \in OptEdge, n \in 0..MaxRows, post \in OptEdge} \ {<<>>}

\* "# Title", "", "Some short paragraph."
TitleDoc ==
    << <<"#", " ", "T", "i", "t", "l", "e">>,
       <<>>,
       <<"S", "o", "m", "e", " ", "s", "h", "o", "r", "t", " ",
         "p", "a", "r", "a", "g", "r", "a", "p", "h", ".">> >>

Docs == PoolDocs \cup FramedDocs \cup {TitleDoc}

Texts == {Join(d, NL) : d \in Docs}

\* <<fontSize, lineHeight in tenths>>
Params ==
    { <<22, 16>>, <<258, 10>>, <<300, 10>>, <<500, 10>>, <<1027, 10>>,
      <<1027, 2>> }

\* parameters nothing in the code rules out: a zero and a negative font size,
\* a negative line height, font sizes whose line (1100) or rule (2100) is
\* taller than a page, and a font size (104) at which
\* 702 / (fontSize * 0.45) is rounded below 15
WideParams ==
    { <<22, 16>>, <<258, 10>>, <<0, 10>>, <<0 - 22, 16>>, <<22, 0 - 16>>,
      <<1100, 10>>, <<2100, 10>>, <<104, 10>> }

OptLine ==
    {<<>>} \cup {<<l>> : l \in {L_empty, L_heading, L_hr, L_rowAfterCR,
                                L_fifteen}}

\* the documents drawn together with WideParams
WideDocs ==
    {pre \o TableRows(n) \o post :
        pre \in OptLine, n \in 0..MaxRows, post \in OptLine} \ {<<>>}

WideTexts == {Join(d, NL) : d \in WideDocs}

(***************************************************************************)
(* State                                                                   *)
(***************************************************************************)
NoEntry == [blk |-> 0, used |-> Zero, lines |-> 0, pages |-> 0]

NoPrev == [mode |-> "none", page |-> <<>>, count |-> 0, fontSize |-> 0]

Tag(kind, blk, idx) == [kind |-> kind, blk |-> blk, idx |-> idx]

\* the state paginateText starts from
Fresh ==
    /\ pc' = "start"
    /\ pxPerLine' = Zero
    /\ charsPerLine' = Finite(0)
    /\ rawLines' = <<>>
    /\ i' = 0
    /\ blocks' = <<>>
    /\ b' = 0
    /\ r' = 0
    /\ visualLines' = <<>>
    /\ k' = 0
    /\ pages' = <<>>
    /\ currentPageLines' = <<>>
    /\ currentHeightUsed' = Zero
    /\ currentPageTags' = <<>>
    /\ pageTags' = <<>>
    /\ pageHeights' = <<>>
    /\ tableEntry' = NoEntry

\* paginateText about to be called for the first time
Idle ==
    /\ pc = "start"
    /\ pxPerLine = Zero
    /\ charsPerLine = Finite(0)
    /\ rawLines = <<>>
    /\ i = 0
    /\ blocks = <<>>
    /\ b = 0
    /\ r = 0
    /\ visualLines = <<>>
    /\ k = 0
    /\ pages = <<>>
    /\ currentPageLines = <<>>
    /\ currentHeightUsed = Zero
    /\ currentPageTags = <<>>
    /\ pageTags = <<>>
    /\ pageHeights = <<>>
    /\ tableEntry = NoEntry
    /\ prev = NoPrev

\* error === null, and an error message: no message, whatever its text, is
\* null
Null == <<>>

Message(m) == <<m>>

\* the App component as mounted: no operation running, no error shown
AppIdle ==
    /\ isGenerating = FALSE
    /\ isProcessing = FALSE
    /\ error = Null
    /\ generateCall = "idle"
    /\ downloadJob = "idle"
    /\ event = "mounted"

Init ==
    /\ text \in Texts
    /\ \E p \in Params : fontSize = p[1] /\ lineHeight = p[2]
    /\ Idle
    /\ AppIdle

InitWide ==
    /\ text \in WideTexts
    /\ \E p \in WideParams : fontSize = p[1] /\ lineHeight = p[2]
    /\ Idle
    /\ AppIdle

app == <<isGenerating, isProcessing, error, generateCall, downloadJob, event>>
inputs == <<text, fontSize, lineHeight, prev, app>>
metrics == <<pxPerLine, charsPerLine>>
segmentation == <<rawLines, i, blocks>>
assembly == <<b, r, visualLines, k, pages, currentPageLines, currentHeightUsed,
              currentPageTags, pageTags, pageHeights, tableEntry>>

(***************************************************************************)
(* Entry and block segmentation                                            *)
(***************************************************************************)
\* an early return of no page at all
EarlyReturnNone == <<>>

\* if (!text) return ['']
EarlyReturn == << <<>> >>

ReturnEmpty ==
    /\ pc = "start"
    /\ text = <<>>
    /\ pages' = EarlyReturn
    /\ pageTags' = << <<Tag("line", 0, 1)>> >>
    /\ pageHeights' = <<Zero>>
    /\ pc' = "done"
    /\ UNCHANGED <<inputs, metrics, segmentation, b, r, visualLines, k, currentPageLines,
                   currentHeightUsed, currentPageTags, tableEntry>>

Enter ==
    /\ pc = "start"
    /\ text # <<>>
    /\ pxPerLine' = LinePixels(fontSize, lineHeight)
    /\ charsPerLine' = LineChars(fontSize)
    /\ rawLines' = Split(text, NL)
    /\ i' = 1
    /\ pc' = "segment"
    /\ UNCHANGED <<inputs, blocks, assembly>>

\* the same index when the run is cut after its first row
TableEndOne(ls, n) == n + 1

\* the index after the run of table rows that starts at n
RECURSIVE TableEnd(_, _)
TableEnd(ls, n) ==
    IF n <= Len(ls) /\ IsTableRow(ls[n]) THEN TableEnd(ls, n + 1) ELSE n

Block(type, content) == [type |-> type, content |-> content]

\* the same iteration with the i++ of the rule branch left out
SegmentAtStuck(ls, n) ==
    IF IsTableRow(ls[n])
    THEN <<Block("table", SubSeq(ls, n, TableEnd(ls, n) - 1)), TableEnd(ls, n)>>
    ELSE IF IsHr(ls[n])
    THEN <<Block("hr", <<ls[n]>>), n>>
    ELSE <<Block("text", <<ls[n]>>), n + 1>>

\* one iteration of the segmentation loop: the block at i and the next i
SegmentAt(ls, n) ==
    IF IsTableRow(ls[n])
    THEN <<Block("table", SubSeq(ls, n, TableEnd(ls, n) - 1)), TableEnd(ls, n)>>
    ELSE IF IsHr(ls[n])
    THEN <<Block("hr", <<ls[n]>>), n + 1>>
    ELSE <<Block("text", <<ls[n]>>), n + 1>>

Segment ==
    /\ pc = "segment"
    /\ i <= Len(rawLines)
    /\ LET step == SegmentAt(rawLines, i)
       IN  /\ blocks' = Append(blocks, step[1])
           /\ i' = step[2]
           /\ IF step[2] > Len(rawLines)
              THEN pc' = "assemble" /\ b' = 1
              ELSE pc' = "segment" /\ b' = b
    /\ UNCHANGED <<inputs, metrics, rawLines, r, visualLines, k, pages,
                   currentPageLines, currentHeightUsed, currentPageTags,
                   pageTags, pageHeights, tableEntry>>

(***************************************************************************)
(* Page assembly                                                           *)
(***************************************************************************)
\* the join of the earlier paginateText, which ends every block with a newline
JoinLinesTrailing(ls) == Join(ls, NL) \o <<NL>>

\* currentPageLines.join('\n')
JoinLines(ls) == Join(ls, NL)

\* what pushPage appends to pages
PushedPage ==
    IF Len(currentPageLines) > 0 THEN JoinLines(currentPageLines) ELSE <<>>

\* the same test sealing the page at equality too
OverflowsAtTie(h) == AtMost(AVAILABLE_HEIGHT, Plus(currentHeightUsed, h))

\* the same test with the height of the unit left out
OverflowsLate(h) == Less(AVAILABLE_HEIGHT, currentHeightUsed)

\* the test that seals the page before a unit of height h
Overflows(h) == Less(AVAILABLE_HEIGHT, Plus(currentHeightUsed, h))

\* the test that keeps a table in one piece
TableFits(tableHeight) ==
    AtMost(Plus(currentHeightUsed, tableHeight), AVAILABLE_HEIGHT)

\* where the loop over the blocks goes after block b
AfterBlock == IF b = Len(blocks) THEN "seal" ELSE "assemble"

\* currentHeightUsed += h for each h of hs in turn
RECURSIVE AddEach(_, _)
AddEach(used, hs) ==
    IF hs = <<>> THEN used ELSE AddEach(Plus(used, hs[1]), Tail(hs))

\* pushPage() when seal holds, then the lines ls (tagged ts) are appended to
\* the page being filled and the heights hs are added, one after the other
PlaceLines(seal, ls, ts, hs) ==
    /\ pages' = IF seal THEN Append(pages, PushedPage) ELSE pages
    /\ pageTags' = IF seal THEN Append(pageTags, currentPageTags) ELSE pageTags
    /\ pageHeights' =
           IF seal THEN Append(pageHeights, currentHeightUsed) ELSE pageHeights
    /\ currentPageLines' = (IF seal THEN <<>> ELSE currentPageLines) \o ls
    /\ currentPageTags' = (IF seal THEN <<>> ELSE currentPageTags) \o ts
    /\ currentHeightUsed' =
           AddEach(IF seal THEN Zero ELSE currentHeightUsed, hs)

\* the blank line put before a table, when spacer holds
SpacerLines(spacer) == IF spacer THEN << <<>> >> ELSE <<>>
SpacerTags(spacer) == IF spacer THEN <<Tag("spacer", b, 0)>> ELSE <<>>
SpacerHeights(spacer) == IF spacer THEN <<pxPerLine>> ELSE <<>>

\* the page as the table block b finds it
Entry == [blk |-> b, used |-> currentHeightUsed, lines |-> Len(currentPageLines),
          pages |-> Len(pages)]

RowTags(n) == [m \in 1..n |-> Tag("row", b, m)]

\* a spacer in front of every table
NeedsSpacerAlways == TRUE

\* if (currentPageLines.length > 0): the page being filled holds a line
NeedsSpacer == Len(currentPageLines) > 0

\* the table fits: spacer if the page holds lines, then every row at once
PlaceWholeTable ==
    /\ pc = "assemble"
    /\ blocks[b].type = "table"
    /\ LET content == blocks[b].content
           tableHeight == Times(Len(content), getLineHeight(FALSE, TRUE, FALSE))
           spacer == NeedsSpacer
       IN  /\ TableFits(tableHeight)
           /\ PlaceLines(FALSE,
                         SpacerLines(spacer) \o content,
                         SpacerTags(spacer) \o RowTags(Len(content)),
                         SpacerHeights(spacer) \o <<tableHeight>>)
    /\ tableEntry' = Entry
    /\ pc' = AfterBlock
    /\ b' = b + 1
    /\ UNCHANGED <<inputs, metrics, segmentation, r, visualLines, k>>

\* the table does not fit: spacer if we are not at the top, then row by row
BeginSplitTable ==
    /\ pc = "assemble"
    /\ blocks[b].type = "table"
    /\ LET content == blocks[b].content
           tableHeight == Times(Len(content), getLineHeight(FALSE, TRUE, FALSE))
           spacer == NeedsSpacer /\ Less(Zero, currentHeightUsed)
       IN  /\ ~TableFits(tableHeight)
           /\ PlaceLines(FALSE, SpacerLines(spacer), SpacerTags(spacer),
                         SpacerHeights(spacer))
    /\ tableEntry' = Entry
    /\ pc' = "rows"
    /\ r' = 1
    /\ UNCHANGED <<inputs, metrics, segmentation, b, visualLines, k>>

\* block.content.slice(0, 2)
Headers(content) == SubSeq(content, 1, IF Len(content) < 2 THEN Len(content) ELSE 2)

\* header re-emission after a page break before any row
RepeatHeadersAnyRow(seal, isHeaderRow, headers) == seal /\ Len(headers) = 2

\* inside the page-break branch: if (!isHeaderRow && headers.length === 2)
RepeatHeaders(seal, isHeaderRow, headers) ==
    seal /\ ~isHeaderRow /\ Len(headers) = 2

\* one iteration of the row loop (r is 1-based: rows 1 and 2 are the header rows)
PlaceRow ==
    /\ pc = "rows"
    /\ LET content == blocks[b].content
           headers == Headers(content)
           isHeaderRow == r <= 2
           seal == Overflows(pxPerLine)
           repeat == RepeatHeaders(seal, isHeaderRow, headers)
       IN  /\ PlaceLines(seal,
                         (IF repeat THEN headers ELSE <<>>) \o <<content[r]>>,
                         (IF repeat
                          THEN <<Tag("header", b, 1), Tag("header", b, 2)>>
                          ELSE <<>>) \o <<Tag("row", b, r)>>,
                         (IF repeat THEN <<Times(Len(headers), pxPerLine)>>
                          ELSE <<>>) \o <<pxPerLine>>)
           /\ IF r = Len(content)
              THEN pc' = AfterBlock /\ b' = b + 1 /\ r' = 0
              ELSE pc' = "rows" /\ b' = b /\ r' = r + 1
    /\ UNCHANGED <<inputs, metrics, segmentation, visualLines, k, tableEntry>>

PlaceHr ==
    /\ pc = "assemble"
    /\ blocks[b].type = "hr"
    /\ LET h == getLineHeight(FALSE, FALSE, TRUE)
       IN  PlaceLines(Overflows(h), <<blocks[b].content[1]>>,
                      <<Tag("line", b, 1)>>, <<h>>)
    /\ pc' = AfterBlock
    /\ b' = b + 1
    /\ UNCHANGED <<inputs, metrics, segmentation, r, visualLines, k, tableEntry>>

PlaceHeading ==
    /\ pc = "assemble"
    /\ blocks[b].type = "text"
    /\ IsHeader(blocks[b].content[1])
    /\ LET height == getLineHeight(TRUE, FALSE, FALSE)
       IN  PlaceLines(Overflows(height), <<blocks[b].content[1]>>,
                      <<Tag("line", b, 1)>>, <<height>>)
    /\ pc' = AfterBlock
    /\ b' = b + 1
    /\ UNCHANGED <<inputs, metrics, segmentation, r, visualLines, k, tableEntry>>

\* a plain text block: wrap it, then place its visual lines one at a time
WrapBlock ==
    /\ pc = "assemble"
    /\ blocks[b].type = "text"
    /\ ~IsHeader(blocks[b].content[1])
    /\ LET wrapped == wrapText(blocks[b].content[1], charsPerLine)
       IN  /\ visualLines' = wrapped
           /\ IF Len(wrapped) = 0
              THEN pc' = AfterBlock /\ b' = b + 1 /\ k' = 0
              ELSE pc' = "wrap" /\ b' = b /\ k' = 1
    /\ UNCHANGED <<inputs, metrics, segmentation, r, pages, currentPageLines,
                   currentHeightUsed, currentPageTags, pageTags, pageHeights,
                   tableEntry>>

PlaceVisualLine ==
    /\ pc = "wrap"
    /\ LET height == pxPerLine
       IN  PlaceLines(Overflows(height), <<visualLines[k]>>,
                      <<Tag(IF k = 1 THEN "line" ELSE "cont", b, k)>>, <<height>>)
    /\ IF k = Len(visualLines)
       THEN pc' = AfterBlock /\ b' = b + 1 /\ k' = 0 /\ visualLines' = <<>>
       ELSE pc' = "wrap" /\ b' = b /\ k' = k + 1 /\ visualLines' = visualLines
    /\ UNCHANGED <<inputs, metrics, segmentation, r, tableEntry>>

\* the final seal and the return value
Finish ==
    /\ pc = "seal"
    /\ LET sealed == Len(currentPageLines) > 0
           result == IF sealed
                     THEN Append(pages, JoinLines(currentPageLines))
                     ELSE pages
       IN  /\ pages' = IF Len(result) > 0 THEN result ELSE << <<>> >>
           /\ pageTags' = IF sealed THEN Append(pageTags, currentPageTags)
                          ELSE IF Len(result) > 0 THEN pageTags
                          ELSE << <<Tag("line", 0, 1)>> >>
           /\ pageHeights' = IF sealed THEN Append(pageHeights, currentHeightUsed)
                             ELSE IF Len(result) > 0 THEN pageHeights ELSE <<Zero>>
    /\ pc' = "done"
    /\ UNCHANGED <<inputs, metrics, segmentation, b, r, visualLines, k, currentPageLines,
                   currentHeightUsed, currentPageTags, tableEntry>>

(***************************************************************************)
(* The caller: pages is recomputed when text or the font size changes      *)
(***************************************************************************)
\* a produced page becomes the document: an upload with content sets the
\* text, and a text that differs from the one held makes pages be recomputed
Repaginate ==
    /\ pc = "done"
    /\ prev.mode = "none"
    /\ \E p \in 1..Len(pages) :
        /\ pages[p] # <<>>
        /\ pages[p] # text
        /\ text' = pages[p]
        /\ prev' = [mode |-> "page", page |-> pages[p], count |-> Len(pages),
                    fontSize |-> fontSize]
    /\ Fresh
    /\ UNCHANGED <<fontSize, lineHeight, app>>

\* the font size is raised, text and line height stay
ChangeFontSize ==
    /\ pc = "done"
    /\ prev.mode = "none"
    /\ \E f \in {p[1] : p \in Params} :
        /\ <<f, lineHeight>> \in Params
        /\ f > fontSize
        /\ fontSize' = f
    /\ prev' = [mode |-> "font", page |-> <<>>, count |-> Len(pages),
                fontSize |-> fontSize]
    /\ Fresh
    /\ UNCHANGED <<text, lineHeight, app>>

Next ==
    \/ ReturnEmpty
    \/ Enter
    \/ Segment
    \/ PlaceWholeTable
    \/ BeginSplitTable
    \/ PlaceRow
    \/ PlaceHr
    \/ PlaceHeading
    \/ WrapBlock
    \/ PlaceVisualLine
    \/ Finish
    \/ Repaginate
    \/ ChangeFontSize

Spec == Init /\ [][Next]_vars

\* the steps of paginateText itself: synchronous code, so a step that can be
\* taken is taken
PaginateStep ==
    \/ ReturnEmpty
    \/ Enter
    \/ Segment
    \/ PlaceWholeTable
    \/ BeginSplitTable
    \/ PlaceRow
    \/ PlaceHr
    \/ PlaceHeading
    \/ WrapBlock
    \/ PlaceVisualLine
    \/ Finish

\* the same program called with any numeric parameters
WideSpec == InitWide /\ [][Next]_vars /\ WF_vars(PaginateStep)

(***************************************************************************)
(* The App component: text generation and exports                          *)
(***************************************************************************)
\* a || b on strings: b when a is empty
OrElse(a, d) == IF a = "" THEN d ELSE a

\* !text.trim()
BlankText(s) == Trim(s) = <<>>

\* INITIAL_TEXT, the text the editor holds when the App is mounted
INITIAL_TEXT ==
    <<"W", "e", "l", "c", "o", "m", "e", " ", "t", "o", " ", "S", "c", "r",
      "i", "b", "e", " ", "A", "I", "!", NL, NL, "T", "h", "i", "s", " ",
      "t", "o", "o", "l", " ", "t", "u", "r", "n", "s", " ", "y", "o", "u",
      "r", " ", "t", "y", "p", "e", "d", " ", "t", "e", "x", "t", " ", "i",
      "n", "t", "o", " ", "r", "e", "a", "l", "i", "s", "t", "i", "c", " ",
      "h", "a", "n", "d", "w", "r", "i", "t", "t", "e", "n", " ", "n", "o",
      "t", "e", "s", ".", NL, NL, "W", "e", " ", "n", "o", "w", " ", "s",
      "u", "p", "p", "o", "r", "t", " ", "*", "*", "b", "o", "l", "d", " ",
      "t", "e", "x", "t", "*", "*", " ", "a", "n", "d", " ", "t", "a", "b",
      "l", "e", "s", "!", NL, NL, "|", " ", "F", "e", "a", "t", "u", "r",
      "e", " ", "|", " ", "S", "u", "p", "p", "o", "r", "t", " ", "|", NL,
      "|", " ", ":", "-", "-", "-", " ", "|", " ", ":", "-", "-", "-", " ",
      "|", NL, "|", " ", "*", "*", "T", "a", "b", "l", "e", "s", "*", "*",
      " ", "|", " ", "Y", "e", "s", " ", "|", NL, "|", " ", "*", "*", "B",
      "o", "l", "d", "*", "*", " ", "|", " ", "Y", "e", "s", " ", "|", NL,
      "|", " ", "*", "*", "L", "i", "n", "e", "d", " ", "P", "a", "p", "e",
      "r", "*", "*", " ", "|", " ", "F", "i", "x", "e", "d", " ", "M", "a",
      "r", "g", "i", "n", " ", "|", NL, NL, "1", ".", " ", "T", "y", "p",
      "e", ",", " ", "p", "a", "s", "t", "e", " ", "(", "R", "i", "c", "h",
      " ", "T", "e", "x", "t", " ", "s", "u", "p", "p", "o", "r", "t", "e",
      "d", "!", ")", ",", " ", "o", "r", " ", "u", "p", "l", "o", "a", "d",
      " ", "a", " ", ".", "t", "x", "t", "/", ".", "m", "d", "/", ".", "d",
      "o", "c", "x", "/", ".", "p", "d", "f", " ", "f", "i", "l", "e", ".",
      NL, "2", ".", " ", "T", "h", "e", " ", "t", "e", "x", "t", " ", "w",
      "i", "l", "l", " ", "a", "u", "t", "o", "m", "a", "t", "i", "c", "a",
      "l", "l", "y", " ", "f", "l", "o", "w", " ", "a", "c", "r", "o", "s",
      "s", " ", "m", "u", "l", "t", "i", "p", "l", "e", " ", "p", "a", "g",
      "e", "s", ".", NL, "3", ".", " ", "U", "s", "e", " ", "\"", "A", "I",
      " ", "F", "o", "r", "m", "a", "t", "\"", " ", "t", "o", " ", "s", "t",
      "r", "u", "c", "t", "u", "r", "e", " ", "m", "e", "s", "s", "y", " ",
      "n", "o", "t", "e", "s", ".", NL, "4", ".", " ", "D", "o", "w", "n",
      "l", "o", "a", "d", " ", "a", "s", " ", "a", " ", "m", "u", "l", "t",
      "i", "-", "p", "a", "g", "e", " ", "P", "D", "F", " ", "o", "r", " ",
      "Z", "I", "P", ".", NL, NL, "T", "r", "y", " ", "t", "y", "p", "i",
      "n", "g", " ", "m", "o", "r", "e", " ", "t", "e", "x", "t", " ", "t",
      "o", " ", "s", "e", "e", " ", "a", " ", "n", "e", "w", " ", "p", "a",
      "g", "e", " ", "a", "p", "p", "e", "a", "r", ".", ".", ".">>

\* a table of sixteen rows, taller than a page at the largest font size
SixteenRows == Join([n \in 1..16 |-> L_row], NL)

\* what the user may type into the editor or upload
AppTexts ==
    { <<>>, <<" ">>, <<"\r", NL, "\t">>, L_text \o <<NL>> \o L_hr,
      L_heading \o <<NL>> \o L_row, SixteenRows }

\* positions of the font size slider, whose range is 14 to 42
FontSizes == {14, 22, 26, 42}

\* response.text as the generation service may deliver it
ResponseTexts == { <<>>, L_heading, L_row \o <<NL>> \o L_rowIndented }

\* error.message of a failed request
RequestErrors == { "", "quota exceeded", "null" }

\* "Could not generate notes."
CouldNotGenerate ==
    <<"C", "o", "u", "l", "d", " ", "n", "o", "t", " ", "g", "e", "n", "e",
      "r", "a", "t", "e", " ", "n", "o", "t", "e", "s", ".">>

\* a settled promise: the notes it resolved to or the message of its Error
Resolved(notes) == [ok |-> TRUE, notes |-> notes, message |-> ""]

Rejected(message) == [ok |-> FALSE, notes |-> <<>>, message |-> message]

\* summarizeToNotes: hasKey is whether process.env.API_KEY is set, fails
\* whether generateContent throws (with error.message message), responseText
\* is response.text
summarizeToNotes(hasKey, fails, message, responseText) ==
    IF ~hasKey
    THEN Rejected(OrElse("API Key not found in environment variables",
                         "Failed to generate notes"))
    ELSE IF fails
    THEN Rejected(OrElse(message, "Failed to generate notes"))
    ELSE Resolved(IF responseText = <<>> THEN CouldNotGenerate ELSE responseText)

\* every way a call of summarizeToNotes can end
Outcomes ==
    {summarizeToNotes(hasKey, fails, message, responseText) :
        hasKey \in BOOLEAN, fails \in BOOLEAN, message \in RequestErrors,
        responseText \in ResponseTexts}

\* what a handler that sets neither the text nor the settings leaves alone
paginator ==
    <<fontSize, lineHeight, prev, pc, metrics, segmentation, assembly>>

\* the render is over: handlers and promise callbacks run between renders,
\* never while paginateText is running
Rendered == pc = "done"

\* the render after a state change: useMemo calls paginateText again when
\* text or settings.fontSize is not what it was, and keeps pages otherwise
Render ==
    IF <<text', fontSize'>> # <<text, fontSize>>
    THEN Fresh
    ELSE UNCHANGED <<pc, metrics, segmentation, assembly>>

\* onChange of the editor, handleFileUpload: setText
EditText ==
    /\ Rendered
    /\ \E t \in AppTexts : text' = t
    /\ event' = "edited"
    /\ UNCHANGED <<fontSize, lineHeight, prev, isGenerating, isProcessing,
                   error, generateCall, downloadJob>>
    /\ Render

\* onChange of the font size slider: update('fontSize', value)
SetFontSize ==
    /\ Rendered
    /\ \E f \in FontSizes : fontSize' = f
    /\ event' = "fontSizeSet"
    /\ UNCHANGED <<text, lineHeight, prev, isGenerating, isProcessing, error,
                   generateCall, downloadJob>>
    /\ Render

\* the close button of the error toast: setError(null)
DismissError ==
    /\ Rendered
    /\ error # Null
    /\ error' = Null
    /\ event' = "dismissed"
    /\ UNCHANGED <<text, isGenerating, isProcessing, generateCall, downloadJob,
                   paginator>>

\* the AI Format button is enabled
CanGenerate == ~(isGenerating \/ isProcessing)

\* handleGenerate on a blank text: if (!text.trim()) return
GenerateSkipped ==
    /\ Rendered
    /\ CanGenerate
    /\ BlankText(text)
    /\ event' = "generateSkipped"
    /\ UNCHANGED <<text, isGenerating, isProcessing, error, generateCall,
                   downloadJob, paginator>>

\* handleGenerate up to await summarizeToNotes(text)
GenerateStarted ==
    /\ Rendered
    /\ CanGenerate
    /\ ~BlankText(text)
    /\ isGenerating' = TRUE
    /\ error' = Null
    /\ generateCall' = "calling"
    /\ event' = "generateStarted"
    /\ UNCHANGED <<text, isProcessing, downloadJob, paginator>>

\* the catch block that shows nothing
GenerateErrorSwallowed(message) == Null

\* what the catch block of handleGenerate passes to setError
GenerateError(message) ==
    Message(OrElse(message,
                   "Failed to generate notes. Please check your API key."))

\* a busy flag that only the end of the try block clears
BusyAfterNoFinally(failed) == failed

\* the busy flag after the finally block of a handler
BusyAfter(failed) == FALSE

\* summarizeToNotes resolved: setText(generatedNotes), then finally
GenerateSucceeded ==
    /\ Rendered
    /\ generateCall = "calling"
    /\ \E o \in Outcomes :
        /\ o.ok
        /\ text' = o.notes
    /\ isGenerating' = BusyAfter(FALSE)
    /\ generateCall' = "idle"
    /\ event' = "generateSucceeded"
    /\ UNCHANGED <<fontSize, lineHeight, prev, isProcessing, error,
                   downloadJob>>
    /\ Render

\* summarizeToNotes rejected: setError(...), then finally
GenerateFailed ==
    /\ Rendered
    /\ generateCall = "calling"
    /\ \E o \in Outcomes :
        /\ ~o.ok
        /\ error' = GenerateError(o.message)
    /\ isGenerating' = BusyAfter(TRUE)
    /\ generateCall' = "idle"
    /\ event' = "generateFailed"
    /\ UNCHANGED <<text, isProcessing, downloadJob, paginator>>

\* the export buttons are enabled
CanDownload == ~isProcessing

\* handleDownloadImage up to its first await; found is whether
\* pageRefs.current[pageIndex] is set
DownloadImageStarted ==
    /\ Rendered
    /\ CanDownload
    /\ \E found \in BOOLEAN :
        IF found
        THEN /\ isProcessing' = TRUE
             /\ downloadJob' = "image"
             /\ event' = "downloadStarted"
             /\ error' = error
        ELSE /\ error' = Message("Page not found to download.")
             /\ event' = "pageNotFound"
             /\ UNCHANGED <<isProcessing, downloadJob>>
    /\ UNCHANGED <<text, isGenerating, generateCall, paginator>>

\* handleDownloadZip up to its first await; empty is whether
\* pageRefs.current.length === 0
DownloadZipStarted ==
    /\ Rendered
    /\ CanDownload
    /\ \E empty \in BOOLEAN :
        IF empty
        THEN /\ event' = "downloadSkipped"
             /\ UNCHANGED <<isProcessing, downloadJob>>
        ELSE /\ isProcessing' = TRUE
             /\ downloadJob' = "zip"
             /\ event' = "downloadStarted"
    /\ UNCHANGED <<text, isGenerating, error, generateCall, paginator>>

\* handleDownloadPDF up to its first await
DownloadPDFStarted ==
    /\ Rendered
    /\ CanDownload
    /\ \E empty \in BOOLEAN :
        IF empty
        THEN /\ event' = "downloadSkipped"
             /\ UNCHANGED <<isProcessing, downloadJob>>
        ELSE /\ isProcessing' = TRUE
             /\ downloadJob' = "pdf"
             /\ event' = "downloadStarted"
    /\ UNCHANGED <<text, isGenerating, error, generateCall, paginator>>

\* what the catch block of an export handler passes to setError
DownloadError(job) ==
    IF job = "image" THEN Message("Failed to download image.")
    ELSE IF job = "zip" THEN Message("Failed to create ZIP.")
    ELSE Message("Failed to generate PDF.")

\* the try block of the running export handler ran to its end, then finally
DownloadSucceeded ==
    /\ Rendered
    /\ downloadJob # "idle"
    /\ isProcessing' = BusyAfter(FALSE)
    /\ downloadJob' = "idle"
    /\ event' = "downloadSucceeded"
    /\ UNCHANGED <<text, isGenerating, error, generateCall, paginator>>

\* an await of the running export handler threw: setError(...), then finally
DownloadFailed ==
    /\ Rendered
    /\ downloadJob # "idle"
    /\ error' = DownloadError(downloadJob)
    /\ isProcessing' = BusyAfter(TRUE)
    /\ downloadJob' = "idle"
    /\ event' = "downloadFailed"
    /\ UNCHANGED <<text, isGenerating, generateCall, paginator>>

\* the App as mounted: INITIAL_TEXT and DEFAULT_SETTINGS, the first render
\* about to call paginateText
InitApp ==
    /\ text = INITIAL_TEXT
    /\ fontSize = 22
    /\ lineHeight = 16
    /\ Idle
    /\ AppIdle

NextApp ==
    \/ ReturnEmpty
    \/ Enter
    \/ Segment
    \/ PlaceWholeTable
    \/ BeginSplitTable
    \/ PlaceRow
    \/ PlaceHr
    \/ PlaceHeading
    \/ WrapBlock
    \/ PlaceVisualLine
    \/ Finish
    \/ EditText
    \/ SetFontSize
    \/ DismissError
    \/ GenerateSkipped
    \/ GenerateStarted
    \/ GenerateSucceeded
    \/ GenerateFailed
    \/ DownloadImageStarted
    \/ DownloadZipStarted
    \/ DownloadPDFStarted
    \/ DownloadSucceeded
    \/ DownloadFailed

AppSpec == InitApp /\ [][NextApp]_vars

(***************************************************************************)
(* Properties                                                              *)
(***************************************************************************)
Done == pc = "done"

RECURSIVE Flatten(_)
Flatten(seqs) == IF seqs = <<>> THEN <<>> ELSE seqs[1] \o Flatten(Tail(seqs))

\* the lines of page p; an empty page pushed by pushPage holds none
PageLines(p) == IF pageTags[p] = <<>> THEN <<>> ELSE Split(pages[p], NL)

OutLines == Flatten([p \in 1..Len(pages) |-> PageLines(p)])
OutTags == Flatten(pageTags)

Injected(tag) == tag.kind \in {"spacer", "header"}

\* ls without the re-emitted header lines and the spacer lines
RECURSIVE Originals(_, _)
Originals(ls, ts) ==
    IF ls = <<>> \/ ts = <<>> THEN ls
    ELSE (IF Injected(ts[1]) THEN <<>> ELSE <<ls[1]>>)
             \o Originals(Tail(ls), Tail(ts))

\* the same, with the visual lines of a wrapped line joined again by one space
RECURSIVE Rejoined(_, _, _)
Rejoined(ls, ts, acc) ==
    IF ls = <<>> \/ ts = <<>> THEN acc \o ls
    ELSE Rejoined(Tail(ls), Tail(ts),
             IF Injected(ts[1]) THEN acc
             ELSE IF ts[1].kind = "cont" /\ acc # <<>>
                  THEN [acc EXCEPT ![Len(acc)] = @ \o <<SP>> \o ls[1]]
                  ELSE Append(acc, ls[1]))

HasTag(kind) == \E n \in 1..Len(OutTags) : OutTags[n].kind = kind

\* C1 as stated: the output lines, without re-emitted headers and spacers, are
\* exactly the document's lines in order.
C1_LinesPreserved ==
    Done => Originals(OutLines, OutTags) = Split(text, NL)

\* C1 as amended: the output lines, without re-emitted headers and spacers and
\* with the visual lines of each wrapped line joined again by a single space,
\* are exactly the document's lines in order, each once.
C1_ContentPreserved ==
    Done => Rejoined(OutLines, OutTags, <<>>) = Split(text, NL)

C1_Witness ==
    /\ Done
    /\ Len(pages) >= 2
    /\ HasTag("cont") /\ HasTag("header") /\ HasTag("spacer")
    /\ Rejoined(OutLines, OutTags, <<>>) = Split(text, NL)

\* C2: every page's accumulated height is at most the budget, unless the page
\* holds exactly one unit that is by itself taller than the budget.
C2_BudgetRespect ==
    Done => \A p \in 1..Len(pages) :
                \/ AtMost(pageHeights[p], AVAILABLE_HEIGHT)
                \/ Len(pageTags[p]) = 1

TableBlocks == {n \in 1..Len(blocks) : blocks[n].type = "table"}

\* the pages that hold lines of table block t
PagesOf(t) ==
    {p \in 1..Len(pages) :
        \E n \in 1..Len(pageTags[p]) :
            pageTags[p][n].blk = t /\ pageTags[p][n].kind \in {"row", "header"}}

\* the pages that hold rows of table block t, from row number `from` on
PagesOfRows(t, from) ==
    {p \in 1..Len(pages) :
        \E n \in 1..Len(pageTags[p]) :
            /\ pageTags[p][n].blk = t
            /\ pageTags[p][n].kind = "row"
            /\ pageTags[p][n].idx >= from}

BeginsWith(p, ls) ==
    /\ Len(PageLines(p)) >= Len(ls)
    /\ SubSeq(PageLines(p), 1, Len(ls)) = ls

\* C3: every page after the first page of a table that holds data rows of it
\* begins with the table's two header lines.
C3_HeaderContinuity ==
    Done => \A t \in TableBlocks : \A p \in PagesOfRows(t, 3) :
                (\E q \in PagesOf(t) : q < p)
                    => BeginsWith(p, SubSeq(blocks[t].content, 1, 2))

\* C4: paginating a produced page again returns that page alone, be the page
\* another text than the document (the call made for it has ended) or the
\* document itself (the call that produced it is that call).
C4_Idempotent ==
    /\ (Done /\ prev.mode = "page") => pages = <<prev.page>>
    /\ (Done /\ \E p \in 1..Len(pages) : pages[p] = text) => pages = <<text>>

\* C5: at least one page is returned, and for the empty document exactly one
\* page, the empty string.
C5_NonEmptyOutput ==
    Done => /\ Len(pages) >= 1
            /\ text = <<>> => pages = << <<>> >>

C5_Witness == Done /\ text = <<>> /\ pages = << <<>> >>

\* C6: with a larger font size the same document, tables included, never has
\* fewer pages.
C6_MonotonicPages ==
    (Done /\ prev.mode = "font") => prev.count <= Len(pages)

\* C7: a table no taller than the budget has all its rows on one page.
C7_TableKeptTogether ==
    Done => \A t \in TableBlocks :
                AtMost(Times(Len(blocks[t].content), pxPerLine), AVAILABLE_HEIGHT)
                    => Cardinality(PagesOfRows(t, 1)) = 1

\* C8: when the last table has at least three rows and was reached on a page
\* that holds content and has room left for two rows but not for three, the
\* first data row is on the next page, which begins with the header row, the
\* separator row and that data row.
C8_SplitScenario ==
    LET e == tableEntry
    IN  (/\ Done
         /\ e.blk # 0
         /\ Len(blocks[e.blk].content) >= 3
         /\ e.lines > 0
         /\ AtMost(Plus(e.used, Times(2, pxPerLine)), AVAILABLE_HEIGHT)
         /\ Less(AVAILABLE_HEIGHT, Plus(e.used, Times(3, pxPerLine))))
        => /\ Len(pages) >= e.pages + 2
           /\ BeginsWith(e.pages + 2, SubSeq(blocks[e.blk].content, 1, 3))

\* the height the paginator gives a line that is not a table row
UnitHeight(line) == getLineHeight(IsHeader(line), FALSE, IsHr(line))

\* the heights of the lines ls, added up from the first line on
TotalHeight(ls) == AddEach(Zero, [n \in 1..Len(ls) |-> UnitHeight(ls[n])])

SmallDocument ==
    LET ls == Split(text, NL)
    IN  /\ \A n \in 1..Len(ls) :
               ~IsTableRow(ls[n]) /\ Within(Len(ls[n]), charsPerLine)
        /\ AtMost(TotalHeight(ls), AVAILABLE_HEIGHT)

\* C9: a document without tables, whose lines need no wrapping and whose total
\* height is within the budget, comes back as one page equal to the document.
C9_SmallDocumentUnchanged ==
    (Done /\ SmallDocument) => pages = <<text>>

C9_Witness ==
    /\ Done
    /\ SmallDocument
    /\ text = Join(TitleDoc, NL)
    /\ fontSize = 22
    /\ lineHeight = 16
    /\ pages = <<text>>

\* three or more repetitions of one of - _ * and nothing else, once trimmed
RuleByGrammar(line) ==
    LET t == Trim(line)
    IN  /\ Len(t) >= 3
        /\ \E c \in {"-", "_", "*"} : \A n \in 1..Len(t) : t[n] = c

\* C10: a line is in a horizontal-rule block exactly when its trimmed form is
\* three or more repetitions of one of - _ *.
C10_RuleGrammar ==
    \A n \in 1..Len(blocks) : \A m \in 1..Len(blocks[n].content) :
        (blocks[n].type = "hr") <=> RuleByGrammar(blocks[n].content[m])

(***************************************************************************)
(* Invalid numeric parameters                                              *)
(***************************************************************************)
\* the call has gone past the computation of charsPerLine
Entered == pc # "start" /\ text # <<>>

\* C11: when paginateText computes the characters-per-line capacity, the
\* divisor it uses is positive: a zero or negative fontSize was clamped to a
\* positive minimum or the call was refused before that point, so no division
\* by zero is performed.
C11_NoDivisionByZero ==
    Entered => Less(Zero, avgCharWidth(fontSize))

(***************************************************************************)
(* Termination                                                             *)
(***************************************************************************)
\* the page assembly loop is running
Assembling == pc \in {"assemble", "rows", "wrap"}

\* an assembly step places a unit (a rule, a heading, a table row, a visual
\* line or a whole table) as the last line of the page being filled
PlacesUnit ==
    /\ currentPageTags' # <<>>
    /\ currentPageTags'[Len(currentPageTags')].blk = b
    /\ ~Injected(currentPageTags'[Len(currentPageTags')])

\* an assembly step moves to the next block, or further inside the block
AssemblyAdvances ==
    \/ b' = b + 1 /\ b <= Len(blocks) /\ PlacesUnit
    \/ b' = b /\ pc = "assemble" /\ pc' \in {"rows", "wrap"}
    \/ b' = b /\ pc = "rows" /\ r' = r + 1 /\ r' <= Len(blocks[b].content)
          /\ PlacesUnit
    \/ b' = b /\ pc = "wrap" /\ k' = k + 1 /\ k' <= Len(visualLines)
          /\ PlacesUnit

\* C12: paginateText terminates for every document and every fontSize and
\* lineHeight: the segmentation index strictly increases on every iteration
\* and stays within the line sequence, every assembly step moves on to the
\* next block (each block being passed once) or further inside the current
\* block and places its unit even when that unit overflows an empty page, the
\* final seal is reached with all blocks consumed, and every call that starts
\* reaches its return.
C12_Terminates ==
    /\ [][pc = "segment" => i' > i /\ i' <= Len(rawLines) + 1]_vars
    /\ [][Assembling => AssemblyAdvances]_vars
    /\ [][pc = "seal" => b = Len(blocks) + 1]_vars
    /\ (pc = "start") ~> Done

\* a finished call in which a unit taller than the budget sits on a page
C12_Witness ==
    /\ Done
    /\ \E p \in 1..Len(pages) :
           pageTags[p] # <<>> /\ ~Injected(pageTags[p][1])
               /\ Less(AVAILABLE_HEIGHT, pageHeights[p])
               /\ Len(pageTags[p]) = 1

(***************************************************************************)
(* Budget of table-free documents                                          *)
(***************************************************************************)
\* segmentation is over: blocks holds every block of the document
Segmented == pc \notin {"start", "segment"}

HeadingFits == AtMost(getLineHeight(TRUE, FALSE, FALSE), AVAILABLE_HEIGHT)

\* C13: in a document without a table block, with parameters for which a
\* heading (1.5 x pxPerLine) fits the budget, the page being filled and every
\* pushed page have an accumulated height of at most the budget, also while
\* the visual lines of one wrapped line continue across a page boundary.
C13_NoTableBudget ==
    (Segmented /\ TableBlocks = {} /\ HeadingFits)
        => /\ AtMost(currentHeightUsed, AVAILABLE_HEIGHT)
           /\ \A p \in 1..Len(pageHeights) :
                  AtMost(pageHeights[p], AVAILABLE_HEIGHT)

\* a finished table-free document in which a wrapped line continues on the
\* page after the one that holds its first visual line
C13_Witness ==
    /\ Done /\ TableBlocks = {} /\ HeadingFits
    /\ \E p \in 2..Len(pages) :
           /\ pageTags[p] # <<>> /\ pageTags[p - 1] # <<>>
           /\ pageTags[p][1].kind = "cont"
           /\ pageTags[p - 1][Len(pageTags[p - 1])].blk = pageTags[p][1].blk

(***************************************************************************)
(* Header re-emission                                                      *)
(***************************************************************************)
\* on a page with tags ts and lines ls, re-emitted header lines are the first
\* two lines, copies of the first two rows of their table, followed by a data
\* row of that table, and the page holds neither header row itself
HeaderDiscipline(ts, ls) ==
    \A n \in 1..Len(ts) :
        ts[n].kind = "header" =>
            LET t == ts[n].blk
            IN  /\ n <= 2
                /\ Len(ts) >= 3
                /\ ts[1] = Tag("header", t, 1)
                /\ ts[2] = Tag("header", t, 2)
                /\ ts[3].kind = "row" /\ ts[3].blk = t /\ ts[3].idx >= 3
                /\ Len(blocks[t].content) >= 2
                /\ ls[1] = blocks[t].content[1]
                /\ ls[2] = blocks[t].content[2]
                /\ \A m \in 3..Len(ts) :
                       /\ ts[m].kind # "header"
                       /\ (ts[m].kind = "row" /\ ts[m].blk = t) => ts[m].idx >= 3

\* C14: the two header lines of a table are re-emitted only as the first lines
\* of a newly opened page, only in front of a data row (row index >= 2 counted
\* from 0) and only for a table of at least two rows; a page opened in front
\* of the header row or the separator row gets no re-emitted lines, so no page
\* holds the header lines of a table twice.
C14_HeaderDiscipline ==
    /\ HeaderDiscipline(currentPageTags, currentPageLines)
    /\ \A p \in 1..Len(pageTags) : HeaderDiscipline(pageTags[p], PageLines(p))

\* a finished split table with a page opened in front of the separator row
\* (nothing re-emitted) and a page opened in front of a data row (headers
\* re-emitted)
C14_Witness ==
    /\ Done
    /\ \E p, q \in 2..Len(pages) :
           /\ pageTags[p] # <<>> /\ pageTags[q] # <<>>
           /\ pageTags[p][1].kind = "row" /\ pageTags[p][1].idx = 2
           /\ pageTags[q][1].kind = "header"
           /\ pageTags[q][1].blk = pageTags[p][1].blk

(***************************************************************************)
(* Oversized units                                                         *)
(***************************************************************************)
\* the height of the unit a tag stands for: a rule takes half a line, a
\* heading one and a half, everything else one line
TagHeight(tag) ==
    IF tag.kind \in {"row", "header", "spacer"} \/ tag.blk = 0 THEN pxPerLine
    ELSE IF blocks[tag.blk].type = "hr" THEN TimesHalf(pxPerLine)
    ELSE IF tag.kind = "line" /\ IsHeader(blocks[tag.blk].content[1])
         THEN TimesOneAndHalf(pxPerLine)
    ELSE pxPerLine

\* the units block n of the document is placed as
Units(n) ==
    IF blocks[n].type = "table"
    THEN {Tag("row", n, m) : m \in 1..Len(blocks[n].content)}
    ELSE IF blocks[n].type = "hr" \/ IsHeader(blocks[n].content[1])
    THEN {Tag("line", n, 1)}
    ELSE {Tag(IF m = 1 THEN "line" ELSE "cont", n, m) :
             m \in 1..Len(wrapText(blocks[n].content[1], charsPerLine))}

Oversized(tag) == ~Injected(tag) /\ Less(AVAILABLE_HEIGHT, TagHeight(tag))

\* where tag u sits in the output: <<page, line>>
PlacesOf(u) ==
    {pn \in (1..Len(pageTags)) \X (1..Len(OutTags)) :
        pn[2] <= Len(pageTags[pn[1]]) /\ pageTags[pn[1]][pn[2]] = u}

\* C15: a unit of the document (heading, rule, visual text line or table row)
\* whose own height exceeds the budget is placed, exactly once, and the page
\* that holds it holds no other unit: any further line of that page is a blank
\* spacer line.
C15_OversizedAlone ==
    Done =>
        /\ \A n \in 1..Len(blocks) : \A u \in Units(n) :
               Oversized(u) => Cardinality(PlacesOf(u)) = 1
        /\ \A p \in 1..Len(pageTags) : \A n \in 1..Len(pageTags[p]) :
               Oversized(pageTags[p][n])
                   => \A m \in 1..Len(pageTags[p]) :
                          m # n => pageTags[p][m].kind = "spacer"

(***************************************************************************)
(* Boundary tie-break                                                      *)
(***************************************************************************)
\* the next assembly step decides where one unit goes: a table row, a visual
\* line, a rule or a heading
AtPlacement ==
    \/ pc \in {"rows", "wrap"}
    \/ /\ pc = "assemble"
       /\ \/ blocks[b].type = "hr"
          \/ blocks[b].type = "text" /\ IsHeader(blocks[b].content[1])

\* the height of that unit
PendingHeight ==
    IF pc \in {"rows", "wrap"} THEN pxPerLine
    ELSE IF blocks[b].type = "hr" THEN TimesHalf(pxPerLine)
    ELSE TimesOneAndHalf(pxPerLine)

\* the next assembly step decides whether a table is placed whole
AtTable == pc = "assemble" /\ blocks[b].type = "table"

SealsPage == Len(pages') = Len(pages) + 1

\* C16: every placement decision seals the current page exactly when
\* accumulated + height is strictly greater than the budget: a rule, heading,
\* visual line or table row that brings the page to exactly the budget is
\* appended without sealing, a table whose height brings the page to exactly
\* the budget is placed whole, and no other assembly step seals a page.
C16_TieBreak ==
    /\ [][AtPlacement =>
             /\ SealsPage <=> Less(AVAILABLE_HEIGHT,
                                    Plus(currentHeightUsed, PendingHeight))
             /\ ~SealsPage =>
                    /\ currentHeightUsed' = Plus(currentHeightUsed, PendingHeight)
                    /\ Len(currentPageLines') = Len(currentPageLines) + 1]_vars
    /\ [][AtTable =>
             /\ b' = b + 1 <=>
                    AtMost(Plus(currentHeightUsed,
                                Times(Len(blocks[b].content), pxPerLine)),
                           AVAILABLE_HEIGHT)
             /\ ~SealsPage]_vars
    /\ [][(Assembling /\ ~AtPlacement) => ~SealsPage]_vars

\* a page brought to exactly the budget by its second unit, still open
C16_Witness ==
    /\ Assembling
    /\ currentHeightUsed = AVAILABLE_HEIGHT
    /\ Len(currentPageTags) >= 2
    /\ ~Injected(currentPageTags[Len(currentPageTags)])

(***************************************************************************)
(* Block segmentation                                                      *)
(***************************************************************************)
BlockLines == Flatten([n \in 1..Len(blocks) |-> blocks[n].content])

\* block n is well formed: a table block is a non-empty run of table rows not
\* followed by another table block, any other block is one line that is not a
\* table row, a rule block exactly when that line is a rule
WellFormedBlock(n) ==
    IF blocks[n].type = "table"
    THEN /\ Len(blocks[n].content) >= 1
         /\ \A m \in 1..Len(blocks[n].content) : IsTableRow(blocks[n].content[m])
         /\ n < Len(blocks) => blocks[n + 1].type # "table"
    ELSE /\ blocks[n].type \in {"hr", "text"}
         /\ Len(blocks[n].content) = 1
         /\ ~IsTableRow(blocks[n].content[1])
         /\ blocks[n].type = "hr" <=> IsHr(blocks[n].content[1])

\* the segmentation loop has just ended: blocks holds the produced blocks
SegmentationOver == pc = "assemble" /\ b = 1

\* C17: the contents of the blocks, concatenated in order, are the lines of
\* the document read so far (all of them when segmentation ends), unaltered;
\* every table block is a maximal run of consecutive lines whose trimmed form
\* starts with '|'; every rule or text block holds exactly one line, an empty
\* line being a text block of its own.
C17_SegmentationPartitions ==
    /\ pc = "segment" =>
           /\ BlockLines = SubSeq(rawLines, 1, i - 1)
           /\ (i <= Len(rawLines) /\ blocks # <<>>
                   /\ blocks[Len(blocks)].type = "table")
                  => ~IsTableRow(rawLines[i])
    /\ SegmentationOver =>
           /\ BlockLines = Split(text, NL)
           /\ rawLines = Split(text, NL)
    /\ (pc = "segment" \/ SegmentationOver) =>
           \A n \in 1..Len(blocks) : WellFormedBlock(n)

\* a segmented document with a table block of several rows, a rule block and a
\* text block holding an empty line
C17_Witness ==
    /\ SegmentationOver
    /\ \E t, h, e \in 1..Len(blocks) :
           /\ blocks[t].type = "table" /\ Len(blocks[t].content) >= 2
           /\ blocks[h].type = "hr"
           /\ blocks[e] = Block("text", <<L_empty>>)

(***************************************************************************)
(* wrapText                                                                *)
(***************************************************************************)
\* the plain text line whose visual lines are being placed
WrappedLine == blocks[b].content[1]

HasSpace(s) == \E n \in 1..Len(s) : s[n] = SP

\* C18: wrapText(line, maxChars) is [line] when line.length <= maxChars;
\* otherwise every visual line either has length <= maxChars or is one single
\* word without spaces; and the words of the visual lines, in order, are the
\* words of the line, so no word is split across two visual lines.
C18_WrapBound ==
    pc = "wrap" =>
        /\ Within(Len(WrappedLine), charsPerLine)
               => visualLines = <<WrappedLine>>
        /\ ~Within(Len(WrappedLine), charsPerLine) =>
               \A v \in 1..Len(visualLines) :
                   \/ Within(Len(visualLines[v]), charsPerLine)
                   \/ ~HasSpace(visualLines[v])
        /\ Flatten([v \in 1..Len(visualLines) |-> Split(visualLines[v], SP)])
               = Split(WrappedLine, SP)

\* a line wrapped into several visual lines, one of them a single word longer
\* than maxChars and one of them holding a space
C18_Witness ==
    /\ pc = "wrap"
    /\ Len(visualLines) >= 2
    /\ \E v \in 1..Len(visualLines) :
           ~Within(Len(visualLines[v]), charsPerLine)
    /\ \E v \in 1..Len(visualLines) : HasSpace(visualLines[v])

\* C19: joining the visual lines of wrapText(line, maxChars) with a single
\* space gives back the line exactly, leading, trailing and consecutive spaces
\* included.
C19_WrapRoundTrip ==
    pc = "wrap" => Join(visualLines, SP) = WrappedLine

\* a line with a leading, a trailing and two consecutive spaces, wrapped into
\* several visual lines
C19_Witness ==
    /\ pc = "wrap"
    /\ Len(visualLines) >= 2
    /\ WrappedLine[1] = SP
    /\ WrappedLine[Len(WrappedLine)] = SP
    /\ \E n \in 1..(Len(WrappedLine) - 1) :
           WrappedLine[n] = SP /\ WrappedLine[n + 1] = SP

(***************************************************************************)
(* Headings                                                                *)
(***************************************************************************)
HeadingBlocks ==
    {n \in 1..Len(blocks) :
        blocks[n].type = "text" /\ IsHeader(blocks[n].content[1])}

\* the tags of the output that come from block n
TagsOf(n) == SelectSeq(OutTags, LAMBDA t : t.blk = n)

\* the next assembly step places a heading
AtHeading == pc = "assemble" /\ b \in HeadingBlocks

\* C20: a text line made of one to six '#' followed by whitespace is never
\* wrapped, whatever its length: its block is placed in one step as one line,
\* the line itself, adding 1.5 x pxPerLine to the page, and in the finished
\* output it is exactly one line of exactly one page, verbatim.
C20_HeadingAtomic ==
    /\ [][AtHeading =>
             /\ b' = b + 1
             /\ Len(currentPageLines') =
                    (IF SealsPage THEN 0 ELSE Len(currentPageLines)) + 1
             /\ currentPageLines'[Len(currentPageLines')] = blocks[b].content[1]
             /\ currentHeightUsed' =
                    Plus(IF SealsPage THEN Zero ELSE currentHeightUsed,
                         TimesOneAndHalf(pxPerLine))]_vars
    /\ [](Done =>
             \A n \in HeadingBlocks :
                 /\ TagsOf(n) = <<Tag("line", n, 1)>>
                 /\ \A pn \in PlacesOf(Tag("line", n, 1)) :
                        PageLines(pn[1])[pn[2]] = blocks[n].content[1]
                 /\ Cardinality(PlacesOf(Tag("line", n, 1))) = 1)

\* a finished document of several pages with a heading longer than
\* charsPerLine that holds a space to break at
C20_Witness ==
    /\ Done
    /\ Len(pages) >= 2
    /\ \E n \in HeadingBlocks :
           /\ ~Within(Len(blocks[n].content[1]), charsPerLine)
           /\ Len(wrapText(blocks[n].content[1], charsPerLine)) >= 2

(***************************************************************************)
(* Spacer lines                                                            *)
(***************************************************************************)
IsSpacer(tag) == tag.kind = "spacer"

\* the spacer lines placed so far, on pushed pages and on the page being filled
SpacerCount == Len(SelectSeq(OutTags \o currentPageTags, IsSpacer))

\* what the step that reaches a table appends to the page being filled
AddedTags ==
    SubSeq(currentPageTags', Len(currentPageLines) + 1, Len(currentPageTags'))

\* C21: the step that reaches a table block appends exactly one blank spacer
\* line, in front of the rows, if and only if the page being filled already
\* holds at least one line; a table reached on an empty page gets none; no
\* other assembly step adds a spacer; and a spacer line is never the first
\* line of a page.
C21_SpacerPlacement ==
    /\ [][AtTable =>
             /\ Len(currentPageLines') = Len(currentPageTags')
             /\ IF Len(currentPageLines) > 0
                THEN /\ AddedTags # <<>>
                     /\ AddedTags[1] = Tag("spacer", b, 0)
                     /\ currentPageLines'[Len(currentPageLines) + 1] = <<>>
                     /\ \A m \in 2..Len(AddedTags) : ~IsSpacer(AddedTags[m])
                     /\ SpacerCount' = SpacerCount + 1
                ELSE /\ \A m \in 1..Len(AddedTags) : ~IsSpacer(AddedTags[m])
                     /\ SpacerCount' = SpacerCount]_vars
    /\ [][(Assembling /\ ~AtTable) => SpacerCount' = SpacerCount]_vars
    /\ [](/\ currentPageTags # <<>> => ~IsSpacer(currentPageTags[1])
          /\ \A p \in 1..Len(pageTags) :
                 pageTags[p] # <<>> => ~IsSpacer(pageTags[p][1]))

\* a finished document with a table reached on an empty page (no spacer) and
\* a table reached on a page that held a line (one spacer)
C21_Witness ==
    /\ Done
    /\ \E t, u \in TableBlocks :
           /\ \A n \in 1..Len(OutTags) : OutTags[n] # Tag("spacer", t, 0)
           /\ \E n \in 1..Len(OutTags) : OutTags[n] = Tag("spacer", u, 0)

(***************************************************************************)
(* Empty pages                                                             *)
(***************************************************************************)
PositiveParams == fontSize > 0 /\ lineHeight > 0

\* C22: with positive fontSize and lineHeight, throughout page assembly the
\* accumulated height is 0 exactly when the page being filled holds no line;
\* a page is sealed while empty only in front of a unit that is by itself
\* taller than the budget; and when even a heading fits the budget no pushed
\* page is empty.
C22_EmptyPageSealing ==
    /\ []((PositiveParams /\ (Assembling \/ pc = "seal"))
            => (currentHeightUsed = Zero <=> currentPageLines = <<>>))
    /\ [][(PositiveParams /\ Assembling /\ SealsPage /\ currentPageLines = <<>>)
             => /\ AtPlacement
                /\ Less(AVAILABLE_HEIGHT, PendingHeight)
                /\ pages'[Len(pages')] = <<>>]_vars
    /\ []((PositiveParams /\ HeadingFits)
            => \A p \in 1..Len(pageTags) : pageTags[p] # <<>>)

\* an empty page sealed in front of an oversized unit, the page being filled
\* holding that unit
C22_Witness ==
    /\ PositiveParams
    /\ Assembling
    /\ \E p \in 1..Len(pageTags) : pageTags[p] = <<>> /\ pages[p] = <<>>
    /\ currentPageLines # <<>>
    /\ Less(AVAILABLE_HEIGHT, currentHeightUsed)


\* a step in which the pending call of summarizeToNotes settles
GenerateFinishes == generateCall = "calling" /\ generateCall' = "idle"

\* a step in which the running export handler comes to its end
DownloadFinishes == downloadJob # "idle" /\ downloadJob' = "idle"

\* C23: whenever an operation started by handleGenerate, handleDownloadImage,
\* handleDownloadZip or handleDownloadPDF finishes, by success or by failure
\* of its external call, the busy flag it set is false again; hence a busy
\* flag is never set while no operation of its kind is running.
C23_BusyFlagsClear ==
    /\ [][GenerateFinishes => isGenerating' = FALSE]_vars
    /\ [][DownloadFinishes => isProcessing' = FALSE]_vars
    /\ [](isGenerating => generateCall = "calling")
    /\ [](isProcessing => downloadJob # "idle")

\* an export has just failed while no other operation runs: its message is
\* shown and both flags are down
C23_Witness ==
    /\ event = "downloadFailed"
    /\ error = Message("Failed to generate PDF.")
    /\ ~isProcessing
    /\ ~isGenerating
    /\ generateCall = "idle"

\* C24: when the call of summarizeToNotes fails, handleGenerate leaves the
\* text as it was and sets a non-null error message; on an empty or
\* whitespace-only text handleGenerate changes no state of the component and
\* starts no call.
C24_GenerationFailureReported ==
    /\ [][event' = "generateFailed" =>
            /\ GenerateFinishes
            /\ text' = text
            /\ error' # Null]_vars
    /\ [][event' = "generateSkipped" =>
            /\ BlankText(text)
            /\ UNCHANGED <<text, isGenerating, isProcessing, error,
                           generateCall, downloadJob>>]_vars
    /\ [][BlankText(text) =>
            ~(generateCall = "idle" /\ generateCall' = "calling")]_vars

\* a failed generation on a text of several lines, reported with the message
\* of the request's Error
C24_Witness ==
    /\ event = "generateFailed"
    /\ error = Message("quota exceeded")
    /\ text = L_heading \o <<NL>> \o L_row
    /\ ~isGenerating

====
